---- MODULE Spec2Model ----
(***************************************************************************)
(* Structural descriptors and acceptance criteria of reptar                *)
(* (src/reptar/descriptors.py): get_center_of_mass, max_atom_pair_dist,    *)
(* com_distance_sum and Criteria.accept.                                   *)
(*                                                                         *)
(* Numbers: numpy's float64 values are modelled as exact rationals         *)
(* [num, den] in lowest terms.  Every coordinate of the enumerated inputs  *)
(* lies on one lattice line, so every Euclidean norm the descriptors take  *)
(* has a rational value and Sqrt is exact.                                 *)
(* Arrays: a numpy array is [ndim, data]; data is the value itself for     *)
(* ndim = 0 and the sequence of its rows otherwise.  Indices are 1-based.  *)
(* Errors: an exception raised by the Python code ends the call with       *)
(* [status |-> "error", kind |-> <exception class>].                       *)
(***************************************************************************)
EXTENDS Integers, Sequences, FiniteSets, TLC

\* crit:   the Criteria object (desc, desc_kwargs, cutoff)
\* built:  the arguments the Criteria was constructed with
\* call:   the call in progress: its arguments and what it returned or raised
\* ncalls: the number of accept calls made on the Criteria
VARIABLES crit, built, call, ncalls

vars == <<crit, built, call, ncalls>>

(* ------------------------------ bounds -------------------------------- *)

\* Largest number of atoms of an enumerated structure.
MaxAtoms == 3

\* Largest number of frames of an enumerated batch of coordinates.
MaxFrames == 2

\* Largest number of atoms of a structure passed to Criteria.accept.
MaxAcceptAtoms == 2

\* Largest number of accept calls made on one Criteria.
MaxCalls == 2

\* Atomic numbers the callers pass: hydrogen, oxygen, and 0, which no
\* element has.
Elements == {0, 1, 8}

\* The lattice sites an atom can sit on, in the order an atom hops along them.
Sites == << <<0, 0, 0>>, <<2, 3, 6>>, <<4, 6, 12>> >>

Points == {Sites[k] : k \in DOMAIN Sites}

\* Entity identifiers.
EntityNames == {0, 1}

\* Cutoffs a Criteria is built with.
Cutoffs == {3, 7}

(* ---------------------------- rationals ------------------------------- *)

Abs(x) == IF x < 0 THEN -x ELSE x

RECURSIVE GCD(_, _)
GCD(a, b) == IF b = 0 THEN a ELSE GCD(b, a % b)

Rat(n, d) ==
    LET g == GCD(Abs(n), Abs(d))
        s == IF d < 0 THEN -1 ELSE 1
    IN  [num |-> (s * n) \div g, den |-> (s * d) \div g]

\* Sums are taken over the least common denominator, which keeps the
\* intermediate integers small.
RAdd(a, b) ==
    LET g == GCD(a.den, b.den)
    IN  Rat(a.num * (b.den \div g) + b.num * (a.den \div g),
            (a.den \div g) * b.den)

RSub(a, b) == RAdd(a, [num |-> -b.num, den |-> b.den])

RMul(a, b) == Rat(a.num * b.num, a.den * b.den)

RLess(a, b) == a.num * b.den < b.num * a.den

\* The root of a perfect square k, searched by bisection in lo..hi.
RECURSIVE Bisect(_, _, _)
Bisect(k, lo, hi) ==
    IF lo >= hi THEN lo
    ELSE LET mid == (lo + hi) \div 2
         IN  IF mid * mid >= k THEN Bisect(k, lo, mid) ELSE Bisect(k, mid + 1, hi)

\* Radicands stay below 2^30, their roots below 2^15.
ISqrt(k) ==
    LET r == Bisect(k, 0, IF k < 32768 THEN k ELSE 32768)
    IN  CHOOSE x \in {r} : x * x = k

RSqrt(a) == [num |-> ISqrt(a.num), den |-> ISqrt(a.den)]

RZero == Rat(0, 1)

RECURSIVE SumSeq(_)
SumSeq(s) == IF s = <<>> THEN 0 ELSE Head(s) + SumSeq(Tail(s))

\* numpy.linalg.norm of a vector of three rationals.
Norm(v) ==
    RSqrt(RAdd(RAdd(RMul(v[1], v[1]), RMul(v[2], v[2])), RMul(v[3], v[3])))

VSub(a, b) == <<RSub(a[1], b[1]), RSub(a[2], b[2]), RSub(a[3], b[3])>>

\* A point of integer coordinates as a vector of rationals.
AsFloat(p) == <<Rat(p[1], 1), Rat(p[2], 1), Rat(p[3], 1)>>

(* ------------------------- results of a call -------------------------- *)

NoArray == [ndim |-> -1, data |-> <<>>]

Ok(v) == [status |-> "ok", kind |-> "", value |-> v]

Err(k) == [status |-> "error", kind |-> k, value |-> NoArray]

(* ----------------------------- mass table ----------------------------- *)

\* z_to_mass of reptar/utils: atomic number -> atomic mass (in units of the
\* hydrogen mass, rounded).
z_to_mass == (1 :> 1) @@ (8 :> 16)

(* ---------------------------- coordinates ----------------------------- *)

\* R = np.array([R]) and R = R[None, ...]: a single frame becomes a batch of
\* one frame.
Promote(R) == IF R.ndim = 2 THEN [ndim |-> 3, frames |-> R.frames] ELSE R

NFrames(R) == Len(R.frames)

NAtoms(R) == Len(R.frames[1])

(* ------------------------- get_center_of_mass ------------------------- *)

\* The loop filling masses: for i in range(len(masses)):
\* masses[i,:] = z_to_mass[Z[i]].  Z[i] past the end of Z raises IndexError,
\* an atomic number that is no key of z_to_mass raises KeyError.
RECURSIVE MassLoopDefault(_, _, _, _)
MassLoopDefault(Z, n, i, acc) ==
    IF i > n THEN Ok(acc)
    ELSE IF i > Len(Z) THEN Err("IndexError")
    ELSE MassLoopDefault(Z, n, i + 1,
             Append(acc, IF Z[i] \in DOMAIN z_to_mass THEN z_to_mass[Z[i]] ELSE 1))

RECURSIVE MassLoop(_, _, _, _)
MassLoop(Z, n, i, acc) ==
    IF i > n THEN Ok(acc)
    ELSE IF i > Len(Z) THEN Err("IndexError")
    ELSE IF Z[i] \notin DOMAIN z_to_mass THEN Err("KeyError")
    ELSE MassLoop(Z, n, i + 1, Append(acc, z_to_mass[Z[i]]))

\* The sum of masses[i] * frame[i][k] over the atoms i.
RECURSIVE WeightedSum(_, _, _, _)
WeightedSum(frame, masses, k, i) ==
    IF i > Len(frame) THEN 0
    ELSE masses[i] * frame[i][k] + WeightedSum(frame, masses, k, i + 1)

\* np.average(frame, axis=0, weights=masses) of one frame.
Average(frame, masses) ==
    LET total == SumSeq(masses)
    IN  <<Rat(WeightedSum(frame, masses, 1, 1), total),
          Rat(WeightedSum(frame, masses, 2, 1), total),
          Rat(WeightedSum(frame, masses, 3, 1), total)>>

\* np.average(R, axis=1, weights=R_masses): one row per frame.
RECURSIVE AverageFrames(_, _, _)
AverageFrames(frames, masses, f) ==
    IF f > Len(frames) THEN <<>>
    ELSE <<Average(frames[f], masses)>> \o AverageFrames(frames, masses, f + 1)

get_center_of_mass(Z, R) ==
    LET R3 == Promote(R)
        masses == MassLoop(Z, NAtoms(R3), 1, <<>>)
    IN  IF masses.status = "error" THEN Err(masses.kind)
        ELSE Ok([ndim |-> 2, data |-> AverageFrames(R3.frames, masses.value, 1)])

(* ------------------------- max_atom_pair_dist ------------------------- *)

\* itertools.combinations(range(n), 2): the pairs (i, j), i < j.
AllPairsButLast(n) == {p \in (1..(n - 1)) \X (1..(n - 1)) : p[1] < p[2]}

AllPairs(n) == {p \in (1..n) \X (1..n) : p[1] < p[2]}

\* np.amax of a set of values.
RMax(S) == CHOOSE m \in S : \A x \in S : ~RLess(m, x)

\* np.linalg.norm(pair0_points - pair1_points, axis=2) of one frame and pair.
PairDistance(frame, p) == Norm(VSub(AsFloat(frame[p[1]]), AsFloat(frame[p[2]])))

\* np.amax(distances, axis=1): one value per frame.
RECURSIVE MaxDistances(_, _, _)
MaxDistances(frames, all_pairs, f) ==
    IF f > Len(frames) THEN <<>>
    ELSE <<RMax({PairDistance(frames[f], p) : p \in all_pairs})>>
         \o MaxDistances(frames, all_pairs, f + 1)

max_atom_pair_dist(Z, R) ==
    LET R3 == Promote(R)
        all_pairs == AllPairs(Len(Z))
    IN  \* all_pairs[:,0] of the 1-axis array np.array([])
        IF all_pairs = {} THEN Err("IndexError")
        \* R[i,j] with j past the atom axis
        ELSE IF \E p \in all_pairs : p[2] > NAtoms(R3) THEN Err("IndexError")
        ELSE Ok([ndim |-> 1, data |-> MaxDistances(R3.frames, all_pairs, 1)])

(* -------------------------- com_distance_sum -------------------------- *)

\* set(entity_ids)
EntitySet(entity_ids) == {entity_ids[i] : i \in DOMAIN entity_ids}

\* np.where(entity_ids == entity_id)[0]: the matching indices, ascending.
RECURSIVE Where(_, _, _)
Where(entity_ids, entity_id, i) ==
    IF i > Len(entity_ids) THEN <<>>
    ELSE IF entity_ids[i] = entity_id
         THEN <<i>> \o Where(entity_ids, entity_id, i + 1)
         ELSE Where(entity_ids, entity_id, i + 1)

\* s[atom_idxs]: the elements of s at the indices, in their order.
RECURSIVE Take(_, _, _)
Take(s, atom_idxs, k) ==
    IF k > Len(atom_idxs) THEN <<>>
    ELSE <<s[atom_idxs[k]]>> \o Take(s, atom_idxs, k + 1)

RECURSIVE TakeFrames(_, _, _)
TakeFrames(frames, atom_idxs, f) ==
    IF f > Len(frames) THEN <<>>
    ELSE <<Take(frames[f], atom_idxs, 1)>> \o TakeFrames(frames, atom_idxs, f + 1)

\* R[:,atom_idxs]
TakeAtoms(R, atom_idxs) ==
    [ndim |-> 3, frames |-> TakeFrames(R.frames, atom_idxs, 1)]

\* cm_entity of one pass of the loop: get_center_of_mass(Z, R[:,atom_idxs]).
EntityCM(Z, R, entity_ids, entity_id) ==
    LET atom_idxs == Where(entity_ids, entity_id, 1)
    IN  IF \E k \in 1..Len(atom_idxs) : atom_idxs[k] > NAtoms(R)
        THEN Err("IndexError")
        ELSE get_center_of_mass(Z, TakeAtoms(R, atom_idxs))

\* d_sum of frame f after the passes for the entities of S:
\* d_sum += np.linalg.norm(cm_structures - cm_entity, axis=1).
RECURSIVE DSum(_, _, _, _)
DSum(S, cm_structures, cm_entity, f) ==
    IF S = {} THEN RZero
    ELSE LET e == CHOOSE y \in S : TRUE
         IN  RAdd(Norm(VSub(cm_structures[f], cm_entity[e].value.data[f])),
                  DSum(S \ {e}, cm_structures, cm_entity, f))

RECURSIVE DSumFrames(_, _, _, _, _)
DSumFrames(S, cm_structures, cm_entity, nF, f) ==
    IF f > nF THEN <<>>
    ELSE <<DSum(S, cm_structures, cm_entity, f)>>
         \o DSumFrames(S, cm_structures, cm_entity, nF, f + 1)

\* cm_entity of every pass of the loop, by entity.
RECURSIVE EntityCMs(_, _, _, _)
EntityCMs(S, Z, R, entity_ids) ==
    IF S = {} THEN <<>>
    ELSE LET e == CHOOSE y \in S : TRUE
         IN  (e :> EntityCM(Z, R, entity_ids, e))
             @@ EntityCMs(S \ {e}, Z, R, entity_ids)

\* The body of com_distance_sum: what it returns or raises (out) and, when
\* the loop over the entities is reached, cm_entity of every pass.
ComDistanceSumRun(Z, R, entity_ids) ==
    LET R3 == Promote(R)
        cm_structures == get_center_of_mass(Z, R3)
        entities == EntitySet(entity_ids)
        cm_entity == EntityCMs(entities, Z, R3, entity_ids)
        failed == {e \in entities : cm_entity[e].status = "error"}
    IN  IF cm_structures.status = "error"
        THEN [out |-> cm_structures, cm_entity |-> <<>>]
        ELSE IF failed # {}
        THEN [out |-> Err(cm_entity[CHOOSE e \in failed : TRUE].kind),
              cm_entity |-> cm_entity]
        ELSE [out |-> Ok([ndim |-> 1,
                          data |-> DSumFrames(entities, cm_structures.value.data,
                                              cm_entity, NFrames(R3), 1)]),
              cm_entity |-> cm_entity]

com_distance_sum(Z, R, entity_ids) == ComDistanceSumRun(Z, R, entity_ids).out

(* ------------------------------ Criteria ------------------------------ *)

Descriptors == {"get_center_of_mass", "max_atom_pair_dist", "com_distance_sum"}

\* A keyword-argument dictionary is a function from keyword names to values.
NoKwargs == <<>>

\* Criteria.__init__
NewCriteria(desc, desc_kwargs, cutoff) ==
    [desc |-> desc, desc_kwargs |-> desc_kwargs, cutoff |-> cutoff]

\* The keywords of  self.desc(Z, R, **self.desc_kwargs, **kwargs): Python
\* raises TypeError for a keyword given twice, before the function is entered.
MergeKwargsOverride(desc_kwargs, kwargs) ==
    [dup |-> FALSE, kw |-> kwargs @@ desc_kwargs]

MergeKwargs(desc_kwargs, kwargs) ==
    IF DOMAIN desc_kwargs \cap DOMAIN kwargs # {}
    THEN [dup |-> TRUE, kw |-> NoKwargs]
    ELSE [dup |-> FALSE, kw |-> desc_kwargs @@ kwargs]

NotInvoked(k) == [invoked |-> FALSE, out |-> Err(k)]

Invoked(r) == [invoked |-> TRUE, out |-> r]

\* The call of the descriptor with the merged keywords: the binding of the
\* keywords to the function's parameters (TypeError for a keyword the function
\* does not take or a missing entity_ids), then its body.
Invoke(desc, Z, R, desc_kwargs, kwargs) ==
    LET m == MergeKwargs(desc_kwargs, kwargs)
    IN  IF m.dup THEN NotInvoked("TypeError")
        ELSE IF desc = "com_distance_sum"
        THEN IF DOMAIN m.kw # {"entity_ids"} THEN NotInvoked("TypeError")
             ELSE Invoked(com_distance_sum(Z, R, m.kw.entity_ids))
        ELSE IF DOMAIN m.kw # {} THEN NotInvoked("TypeError")
        ELSE IF desc = "max_atom_pair_dist" THEN Invoked(max_atom_pair_dist(Z, R))
        ELSE Invoked(get_center_of_mass(Z, R))

\* desc_v < self.cutoff, element by element.
RECURSIVE LessEqData(_, _, _)
LessEqData(ndim, data, cutoff) ==
    IF ndim = 0 THEN ~RLess(Rat(cutoff, 1), data)
    ELSE [i \in 1..Len(data) |-> LessEqData(ndim - 1, data[i], cutoff)]

RECURSIVE LessData(_, _, _)
LessData(ndim, data, cutoff) ==
    IF ndim = 0 THEN RLess(data, Rat(cutoff, 1))
    ELSE [i \in 1..Len(data) |-> LessData(ndim - 1, data[i], cutoff)]

LessThan(arr, cutoff) ==
    [ndim |-> arr.ndim, data |-> LessData(arr.ndim, arr.data, cutoff)]

\* arr[0]
Index0(arr) ==
    IF arr.ndim < 1 THEN NoArray
    ELSE [ndim |-> arr.ndim - 1, data |-> arr.data[1]]

\* if n_R == 1: whether accept indexes both results with [0].
Squeeze(R, n_R) == n_R = 1

\* What accept returns or raises, given what the call of the descriptor (c)
\* returned or raised.
AcceptResult(self, R, c) ==
    LET n_R == NFrames(Promote(R))
    IN  IF c.out.status = "error"
        THEN [status |-> "error", kind |-> c.out.kind, invoked |-> c.invoked,
              accepted |-> NoArray, value |-> NoArray]
        ELSE LET desc_v == c.out.value
                 accept_r == LessThan(desc_v, self.cutoff)
             IN  IF Squeeze(R, n_R)
                 THEN [status |-> "ok", kind |-> "", invoked |-> TRUE,
                       accepted |-> Index0(accept_r), value |-> Index0(desc_v)]
                 ELSE [status |-> "ok", kind |-> "", invoked |-> TRUE,
                       accepted |-> accept_r, value |-> desc_v]

\* Criteria.accept: what the call returns or raises.
AcceptOutcome(self, Z, R, kwargs) ==
    AcceptResult(self, R,
                 Invoke(self.desc, Z, Promote(R), self.desc_kwargs, kwargs))

\* Criteria.accept: the Criteria after the call (accept assigns no attribute).
SelfAfterAcceptCaching(self, kwargs) ==
    [self EXCEPT !.desc_kwargs = kwargs @@ self.desc_kwargs]

SelfAfterAccept(self, kwargs) == self

(* ------------------------ the callers' inputs ------------------------- *)

ZSeqs(n) == [1..n -> Elements]

Frames(n) == [1..n -> Points]

NextSite(p) ==
    LET k == CHOOSE i \in DOMAIN Sites : Sites[i] = p
    IN  Sites[(k % Len(Sites)) + 1]

\* A trajectory of nF frames: from one frame to the next one atom hops to the
\* next site, the atoms taking turns.
RECURSIVE Trajectory(_, _)
Trajectory(base, nF) ==
    IF nF = 1 THEN <<base>>
    ELSE LET t == Trajectory(base, nF - 1)
             last == t[nF - 1]
             a == ((nF - 2) % Len(base)) + 1
         IN  Append(t, [last EXCEPT ![a] = NextSite(last[a])])

\* Coordinates of n atoms: one frame (2 axes) or a batch of frames (3 axes).
Coordinates(n) ==
    {[ndim |-> 2, frames |-> <<b>>] : b \in Frames(n)}
    \cup {[ndim |-> 3, frames |-> Trajectory(b, nF)] :
             b \in Frames(n), nF \in 1..MaxFrames}

\* Entity identifiers of n atoms, the first atom's entity being entity 0.
IdSeqs(n) == {ids \in [1..n -> EntityNames] : ids[1] = 0}

NoCall == [op |-> "none", Z |-> <<>>, R |-> <<>>, kw |-> NoKwargs,
           out |-> Err(""), locals |-> <<>>]

NoCriteria == NewCriteria("none", NoKwargs, 0)

(* ------------------------- descriptor calls --------------------------- *)

\* The lengths of atomic_numbers tried with coordinates of nA atoms: the
\* matching one, one atom short, one atom too many.
ZLengths(nA) == {nZ \in 1..MaxAtoms : nZ - nA \in {-1, 0, 1}}

InitDesc ==
    /\ crit = NoCriteria
    /\ built = NoCriteria
    /\ call = NoCall
    /\ ncalls = 0

CallGetCenterOfMass ==
    /\ call = NoCall
    /\ \E nA \in 1..MaxAtoms : \E nZ \in ZLengths(nA) :
        \E Z \in ZSeqs(nZ), R \in Coordinates(nA) :
            call' = [op |-> "get_center_of_mass", Z |-> Z, R |-> R,
                     kw |-> NoKwargs, out |-> get_center_of_mass(Z, R),
                     locals |-> <<>>]
    /\ UNCHANGED <<crit, built, ncalls>>

CallMaxAtomPairDist ==
    /\ call = NoCall
    /\ \E nA \in 1..MaxAtoms : \E nZ \in ZLengths(nA) :
        \E Z \in ZSeqs(nZ), R \in Coordinates(nA) :
            call' = [op |-> "max_atom_pair_dist", Z |-> Z, R |-> R,
                     kw |-> NoKwargs, out |-> max_atom_pair_dist(Z, R),
                     locals |-> <<>>]
    /\ UNCHANGED <<crit, built, ncalls>>

\* locals: cm_entity of every pass of the loop over the entities.
CallComDistanceSum ==
    /\ call = NoCall
    /\ \E nA \in 1..MaxAtoms : \E nZ \in ZLengths(nA) :
        \E Z \in ZSeqs(nZ), R \in Coordinates(nA), ids \in IdSeqs(nA) :
            LET run == ComDistanceSumRun(Z, R, ids)
            IN  call' = [op |-> "com_distance_sum", Z |-> Z, R |-> R,
                         kw |-> [entity_ids |-> ids],
                         out |-> run.out, locals |-> run.cm_entity]
    /\ UNCHANGED <<crit, built, ncalls>>

\* The caller takes the result; the next call can start.
Return ==
    /\ call # NoCall
    /\ call' = NoCall
    /\ UNCHANGED <<crit, built, ncalls>>

NextDesc ==
    \/ CallGetCenterOfMass
    \/ CallMaxAtomPairDist
    \/ CallComDistanceSum
    \/ Return

SpecDesc == InitDesc /\ [][NextDesc]_vars

\* The calls of max_atom_pair_dist alone.
NextPair ==
    \/ CallMaxAtomPairDist
    \/ Return

SpecPair == InitDesc /\ [][NextPair]_vars

(* --------------------------- Criteria calls --------------------------- *)

\* The keyword dictionaries a Criteria is built with.
FixedKwargs ==
    {NoKwargs} \cup {[entity_ids |-> ids] : ids \in IdSeqs(MaxAcceptAtoms)}

\* The keywords passed to accept for a structure of n atoms.
CallKwargs(n) == {NoKwargs} \cup {[entity_ids |-> ids] : ids \in IdSeqs(n)}

Init ==
    /\ \E desc \in Descriptors, desc_kwargs \in FixedKwargs, cutoff \in Cutoffs :
           crit = NewCriteria(desc, desc_kwargs, cutoff)
    /\ built = crit
    /\ call = NoCall
    /\ ncalls = 0

\* locals: what the call of the descriptor returned or raised.
Accept ==
    /\ call = NoCall
    /\ ncalls < MaxCalls
    /\ ncalls' = ncalls + 1
    /\ \E n \in 1..MaxAcceptAtoms :
        \E Z \in ZSeqs(n), R \in Coordinates(n), kwargs \in CallKwargs(n) :
            LET c == Invoke(crit.desc, Z, Promote(R), crit.desc_kwargs, kwargs)
            IN  /\ call' = [op |-> "accept", Z |-> Z, R |-> R, kw |-> kwargs,
                            out |-> AcceptResult(crit, R, c), locals |-> c.out]
                /\ crit' = SelfAfterAccept(crit, kwargs)
    /\ UNCHANGED built

Next ==
    \/ Accept
    \/ Return

Spec == Init /\ [][Next]_vars

(* ------------------------------- claims ------------------------------- *)

\* v < c for a rational v and an integer c.
Below(v, c) == v.num < c * v.den

\* acc holds, element by element, whether val lies strictly below c.
AcceptedIsBelow(acc, val, c) ==
    /\ acc.ndim = val.ndim
    /\ CASE val.ndim = 0 -> acc.data = Below(val.data, c)
         [] val.ndim = 1 ->
                /\ Len(acc.data) = Len(val.data)
                /\ \A i \in 1..Len(val.data) : acc.data[i] = Below(val.data[i], c)
         [] val.ndim = 2 ->
                /\ Len(acc.data) = Len(val.data)
                /\ \A i \in 1..Len(val.data) :
                       /\ Len(acc.data[i]) = Len(val.data[i])
                       /\ \A k \in 1..Len(val.data[i]) :
                              acc.data[i][k] = Below(val.data[i][k], c)
         [] OTHER -> FALSE

AcceptReturned == call.op = "accept" /\ call.out.status = "ok"

\* C1: every accept call that returns reports, for every frame, accepted
\* exactly when the descriptor value it returns is strictly smaller than the
\* cutoff the Criteria was built with: a value equal to the cutoff or greater
\* is rejected.
C1_StrictLessThan ==
    AcceptReturned => AcceptedIsBelow(call.out.accepted, call.out.value, built.cutoff)

\* A frame whose descriptor value equals the cutoff was rejected, in a batch
\* whose other frame was accepted.
C1_Witness ==
    /\ AcceptReturned
    /\ call.out.value.ndim = 1
    /\ \E i, j \in 1..Len(call.out.value.data) :
          /\ call.out.value.data[i] = Rat(built.cutoff, 1)
          /\ call.out.accepted.data[i] = FALSE
          /\ call.out.accepted.data[j] = TRUE

\* The call-time keywords repeat a keyword the Criteria was built with.
Collision ==
    /\ call.op = "accept"
    /\ DOMAIN built.desc_kwargs \cap DOMAIN call.kw # {}

\* C7: an accept call whose keywords repeat a keyword of desc_kwargs raises
\* (TypeError, the DuplicateArgument of the description) without entering the
\* descriptor function and returns neither an acceptance nor a value.
C7_DuplicateKeywordRaises ==
    Collision =>
        /\ call.out.status = "error"
        /\ call.out.kind = "TypeError"
        /\ ~call.out.invoked
        /\ call.out.accepted = NoArray
        /\ call.out.value = NoArray

\* com_distance_sum was given two different entity_ids, one at construction
\* and one at the call.
C7_Witness ==
    /\ Collision
    /\ built.desc = "com_distance_sum"
    /\ built.desc_kwargs.entity_ids # call.kw.entity_ids
    /\ Len(call.kw.entity_ids) = Len(built.desc_kwargs.entity_ids)
    /\ call.out.status = "error"

HasUnknownElement(Z) == \E i \in 1..Len(Z) : Z[i] \notin DOMAIN z_to_mass

\* An accept call that entered get_center_of_mass or com_distance_sum with
\* atomic numbers of the atom axis' length, one of them without a mass.
UnknownElementCall ==
    /\ call.op = "accept"
    /\ built.desc \in {"get_center_of_mass", "com_distance_sum"}
    /\ call.out.invoked
    /\ Len(call.Z) = NAtoms(call.R)
    /\ HasUnknownElement(call.Z)

\* C8: when an atomic number has no entry in the mass table, the descriptor
\* (get_center_of_mass or com_distance_sum) raises the failed lookup (KeyError,
\* the UnknownElement of the description) for the whole call, and so does the
\* accept call around it: no frame gets a center of mass, a descriptor value
\* or an acceptance.
C8_UnknownElementFails ==
    UnknownElementCall =>
        /\ call.locals = Err("KeyError")
        /\ call.out.status = "error"
        /\ call.out.kind = "KeyError"
        /\ call.out.accepted = NoArray
        /\ call.out.value = NoArray

\* A batch of two frames whose second atom has no mass: the call failed.
C8_Witness ==
    /\ UnknownElementCall
    /\ NFrames(call.R) = 2
    /\ Len(call.Z) = 2
    /\ call.Z[1] \in DOMAIN z_to_mass
    /\ call.out.status = "error"

SqDist(p, q) ==
    (p[1] - q[1]) * (p[1] - q[1]) + (p[2] - q[2]) * (p[2] - q[2])
    + (p[3] - q[3]) * (p[3] - q[3])

\* v is the nonnegative rational whose square is the integer k.
IsRootOf(v, k) == v.num >= 0 /\ v.den > 0 /\ v.num * v.num = k * v.den * v.den

\* A max_atom_pair_dist call on at least two atoms, atomic_numbers matching.
PairCall ==
    /\ call.op = "max_atom_pair_dist"
    /\ Len(call.Z) = NAtoms(call.R)
    /\ Len(call.Z) >= 2

\* C9: on n_atoms >= 2 atoms with matching atomic_numbers, max_atom_pair_dist
\* returns one value per frame, in frame order, and the value of frame f is
\* the largest Euclidean distance between two distinct atoms i < j of frame f.
C9_MaxOverAllPairs ==
    PairCall =>
        /\ call.out.status = "ok"
        /\ call.out.value.ndim = 1
        /\ Len(call.out.value.data) = NFrames(call.R)
        /\ \A f \in 1..NFrames(call.R) :
              LET frame == call.R.frames[f]
                  n == Len(frame)
                  pairs == {p \in (1..n) \X (1..n) : p[1] < p[2]}
              IN  \E p \in pairs :
                      /\ \A q \in pairs :
                             SqDist(frame[q[1]], frame[q[2]])
                             <= SqDist(frame[p[1]], frame[p[2]])
                      /\ IsRootOf(call.out.value.data[f],
                                  SqDist(frame[p[1]], frame[p[2]]))

\* Three atoms and two frames whose largest distances differ, the larger one
\* between the first and the last atom.
C9_Witness ==
    /\ PairCall
    /\ call.out.status = "ok"
    /\ NAtoms(call.R) = 3
    /\ NFrames(call.R) = 2
    /\ call.out.value.data[1] # call.out.value.data[2]
    /\ IsRootOf(call.out.value.data[2], SqDist(call.R.frames[2][1], call.R.frames[2][3]))
    /\ ~IsRootOf(call.out.value.data[2], SqDist(call.R.frames[2][1], call.R.frames[2][2]))
    /\ ~IsRootOf(call.out.value.data[2], SqDist(call.R.frames[2][2], call.R.frames[2][3]))

RECURSIVE SumOver(_, _)
SumOver(S, w) ==
    IF S = {} THEN 0
    ELSE LET x == CHOOSE y \in S : TRUE IN w[x] + SumOver(S \ {x}, w)

\* cm is the center of mass of the atoms of frame in the set atoms, each
\* weighted by the mass of its own atomic number.
IsCenterOfMassOf(cm, Z, frame, atoms) ==
    \A k \in 1..3 :
        cm[k].num * SumOver(atoms, [a \in atoms |-> z_to_mass[Z[a]]])
        = cm[k].den * SumOver(atoms, [a \in atoms |-> z_to_mass[Z[a]] * frame[a][k]])

\* C4: in com_distance_sum the center of mass of every entity is the one of
\* the entity's own atoms, each position weighted by that atom's mass.
C4_EntityCenterOfMass ==
    (/\ call.op = "com_distance_sum"
     /\ call.out.status = "ok"
     /\ Len(call.Z) = NAtoms(call.R)) =>
        \A e \in EntitySet(call.kw.entity_ids) :
            \A f \in 1..NFrames(call.R) :
                IsCenterOfMassOf(call.locals[e].value.data[f], call.Z,
                                 call.R.frames[f],
                                 {a \in 1..Len(call.Z) : call.kw.entity_ids[a] = e})

DescriptorCall ==
    call.op \in {"get_center_of_mass", "max_atom_pair_dist", "com_distance_sum"}

\* C5: a descriptor called with atomic_numbers shorter or longer than the atom
\* axis of the coordinates raises and returns no value.
C5_LengthMismatchRaises ==
    (DescriptorCall /\ Len(call.Z) # NAtoms(call.R)) =>
        call.out.status = "error" /\ call.out.value = NoArray

\* C6: for a structure of one atom max_atom_pair_dist returns zero for every
\* frame.
C6_OneAtomZero ==
    (/\ call.op = "max_atom_pair_dist"
     /\ Len(call.Z) = 1
     /\ NAtoms(call.R) = 1) =>
        /\ call.out.status = "ok"
        /\ call.out.value.ndim = 1
        /\ Len(call.out.value.data) = NFrames(call.R)
        /\ \A f \in 1..NFrames(call.R) : call.out.value.data[f] = RZero

SameArray(a, b) == a.ndim = b.ndim /\ a.data = b.data

\* The single frame of a batch of one frame, as coordinates of 2 axes.
AsSingleFrame(R) == [ndim |-> 2, frames |-> R.frames]

\* C2: accept on a single frame r returns the first and only element of what
\* accept returns on the batch [r].
C2_SingleBatchParity ==
    (AcceptReturned /\ call.R.ndim = 3 /\ NFrames(call.R) = 1) =>
        LET single == AcceptOutcome(built, call.Z, AsSingleFrame(call.R), call.kw)
        IN  /\ single.status = "ok"
            /\ SameArray(single.accepted, Index0(call.out.accepted))
            /\ SameArray(single.value, Index0(call.out.value))

\* C3: for coordinates of 3 axes accept returns accepted and the descriptor
\* value as arrays with one entry per frame, the descriptor's own array, also
\* for a batch of one frame; for coordinates of 2 axes it returns the entry of
\* the only frame.
C3_SqueezeOnlySingleFrame ==
    AcceptReturned =>
        IF call.R.ndim = 3
        THEN /\ SameArray(call.out.value, call.locals.value)
             /\ call.out.accepted.ndim = call.out.value.ndim
             /\ Len(call.out.accepted.data) = NFrames(call.R)
        ELSE /\ SameArray(call.out.value, Index0(call.locals.value))
             /\ call.out.accepted.ndim = call.out.value.ndim

====
